---------------------------- MODULE Spec2Model ----------------------------
(***************************************************************************)
(* Model of marimo/_server/api/endpoints/assets.py: the two asset routes   *)
(*   GET /@file/{filename_and_length:path}   (virtual_file)                *)
(*   GET /public/{filepath:path}             (serve_public_file)           *)
(* A string is a sequence of one-character strings.  A filesystem path is  *)
(* the sequence of its components from the root.                           *)
(***************************************************************************)
EXTENDS Integers, Sequences, FiniteSets, TLC

VARIABLES
    route,        \* which route the request is for: "file" or "public"
    token,        \* request.path_params["filename_and_length"]
    store,        \* the virtual-file store: filename -> bytes
    notebook_id,  \* request.headers.get("X-Notebook-Id")
    filepath,     \* request.path_params["filepath"], split on "/"
    fs,           \* the mutable entries of the filesystem
    pc,           \* the handler's position
    public_dir,   \* serve_public_file's local public_dir
    file_path,    \* serve_public_file's local file_path
    response,     \* the response sent (NoResponse before)
    calls         \* the calls made to the collaborators and to the filesystem

vars == << route, token, store, notebook_id, filepath, fs, pc, public_dir,
           file_path, response, calls >>

(***************************************************************************)
(* Bounds                                                                  *)
(***************************************************************************)
MaxTokLen == 4
MaxBytes == 1
MaxSegs == 3

(***************************************************************************)
(* Sequence helpers                                                        *)
(***************************************************************************)
SeqsUpTo(S, n) == UNION { [1..k -> S] : k \in 0..n }

IsPrefix(p, q) == Len(p) <= Len(q) /\ SubSeq(q, 1, Len(p)) = p

Front(s) == SubSeq(s, 1, Len(s) - 1)

Last(s) == s[Len(s)]

Contains(s, c) == \E i \in 1..Len(s) : s[i] = c

FirstIndex(s, c) == CHOOSE i \in 1..Len(s) : s[i] = c /\ \A j \in 1..(i-1) : s[j] # c

LastIndex(s, c) == CHOOSE i \in 1..Len(s) : s[i] = c /\ \A j \in (i+1)..Len(s) : s[j] # c

(***************************************************************************)
(* Responses.  None stands for Python's None.                              *)
(***************************************************************************)
None == "None"

NoResponse == [status |-> 0, content |-> <<>>, media_type |-> None,
               cache_control |-> None, detail |-> None]

\* starlette Response(content=..., media_type=..., headers=...)
Response(status_code, content, media_type, cache_control) ==
    [status |-> status_code, content |-> content, media_type |-> media_type,
     cache_control |-> cache_control, detail |-> None]

\* raise HTTPException(status_code=..., detail=...)
HTTPException(status_code, detail) ==
    [status |-> status_code, content |-> <<>>, media_type |-> None,
     cache_control |-> None, detail |-> detail]

\* an exception no handler catches: the server answers 500
Unhandled(exception) ==
    [status |-> 500, content |-> <<>>, media_type |-> None,
     cache_control |-> None, detail |-> exception]

Call(op, path, n) == [op |-> op, path |-> path, n |-> n]

(***************************************************************************)
(* GET /@file/{filename_and_length}                                        *)
(***************************************************************************)
\* The characters a token is made of.  "SUP2" is the superscript two
\* (U+00B2, a digit but not a decimal), "AR3" the Arabic-Indic digit three
\* (U+0663, a decimal), "t" a letter.
AsciiDigits == {"0", "1"}
Alphabet == AsciiDigits \cup {"SUP2", "AR3", "t", "-", "."}

Tokens == SeqsUpTo(Alphabet, MaxTokLen)

Bytes == {"x", "y"}

StoreNames == { <<"t">>, <<"-", "t">>, <<"t", ".", "t">> }

\* the stores: empty, or one buffer of at most MaxBytes bytes under one name
Stores == { <<>> } \cup
          { [n \in {name} |-> buf] : name \in StoreNames, buf \in SeqsUpTo(Bytes, MaxBytes) }

\* EMPTY_VIRTUAL_FILE.filename: the reserved token of the empty file
EMPTY_VIRTUAL_FILE_filename == <<>>

\* "-" not in filename_and_length
NoSeparator(s) == ~Contains(s, "-")

\* a variant that splits on the last "-": filename_and_length.rsplit("-", 1)
SplitLastMut(s) == << SubSeq(s, 1, LastIndex(s, "-") - 1),
                      SubSeq(s, LastIndex(s, "-") + 1, Len(s)) >>
\* filename_and_length.split("-", 1)
SplitOnce(s) == << SubSeq(s, 1, FirstIndex(s, "-") - 1),
                   SubSeq(s, FirstIndex(s, "-") + 1, Len(s)) >>

\* str.isdigit(): non-empty, and every character has the Unicode property
\* Digit or Decimal
isdigit(s) == Len(s) > 0 /\ \A i \in 1..Len(s) : s[i] \in AsciiDigits \cup {"SUP2", "AR3"}

\* the value int() gives a character: Unicode decimals only
DecimalValue(c) == CASE c = "0" -> 0 [] c = "1" -> 1 [] c = "AR3" -> 3 [] OTHER -> -1

RECURSIVE IntValue(_)
IntValue(s) == IF s = <<>> THEN 0 ELSE 10 * IntValue(Front(s)) + DecimalValue(Last(s))

\* int(byte_length): ValueError on a character that is no decimal
int(s) == IF Len(s) > 0 /\ \A i \in 1..Len(s) : DecimalValue(s[i]) >= 0
          THEN [ok |-> TRUE, value |-> IntValue(s)]
          ELSE [ok |-> FALSE, value |-> 0]

\* read_virtual_file(filename, byte_length): the buffer held under filename
\* when it has exactly byte_length bytes, HTTPException(404) otherwise
read_virtual_file(st, filename, byte_length) ==
    IF filename \in DOMAIN st /\ Len(st[filename]) = byte_length
    THEN [ok |-> TRUE, buffer |-> st[filename]]
    ELSE [ok |-> FALSE, buffer |-> <<>>]

\* mimetypes.guess_type(filename): the type of the extension after the last
\* ".", unless only dots precede it; "t" is the one extension of the table
guess_type(filename) ==
    IF ~Contains(filename, ".") THEN None
    ELSE LET i == LastIndex(filename, ".")
         IN IF (\E j \in 1..(i-1) : filename[j] # ".")
               /\ SubSeq(filename, i + 1, Len(filename)) = <<"t">>
            THEN "text/plain"
            ELSE None

\* a variant of the response without the headers argument
FoundResponseNoCacheMut(buffer_contents, filename) ==
    Response(200, buffer_contents, guess_type(filename), None)
\* the response of lines 173-178
FoundResponse(buffer_contents, filename) ==
    Response(200, buffer_contents, guess_type(filename), "max-age=86400")

\* lines 165-178, the token holding a "-"
ReadAndRespond(tok, st) ==
    LET byte_length == SplitOnce(tok)[1]
        filename == SplitOnce(tok)[2]
    IN IF ~isdigit(byte_length)
       THEN [response |-> HTTPException(404, "Invalid byte length in virtual file request"),
             calls |-> <<>>]
       ELSE IF ~int(byte_length).ok
       THEN [response |-> Unhandled("ValueError"), calls |-> <<>>]
       ELSE LET n == int(byte_length).value
                got == read_virtual_file(st, filename, n)
            IN [response |-> IF got.ok THEN FoundResponse(got.buffer, filename)
                             ELSE HTTPException(404, "File not found"),
                calls |-> << Call("read_virtual_file", filename, n) >>]

\* a variant of the handler with the separator test before the sentinel test
VirtualFileSeparatorFirstMut(tok, st) ==
    IF NoSeparator(tok)
    THEN [response |-> HTTPException(404, "Invalid virtual file request"),
          calls |-> <<>>]
    ELSE IF tok = EMPTY_VIRTUAL_FILE_filename
    THEN [response |-> Response(200, <<>>, "application/octet-stream", None),
          calls |-> <<>>]
    ELSE ReadAndRespond(tok, st)

\* virtual_file, as a function of the token and the store
VirtualFile(tok, st) ==
    IF tok = EMPTY_VIRTUAL_FILE_filename
    THEN [response |-> Response(200, <<>>, "application/octet-stream", None),
          calls |-> <<>>]
    ELSE IF NoSeparator(tok)
    THEN [response |-> HTTPException(404, "Invalid virtual file request"),
          calls |-> <<>>]
    ELSE ReadAndRespond(tok, st)

(***************************************************************************)
(* The filesystem                                                          *)
(***************************************************************************)
Dir == [kind |-> "dir", data |-> None, target |-> <<>>]
File(data) == [kind |-> "file", data |-> data, target |-> <<>>]
Link(target) == [kind |-> "link", data |-> None, target |-> target]
Absent == [kind |-> "none", data |-> None, target |-> <<>>]

\* The entries no request changes.  /passwd is a file outside every public
\* directory; /ln is a symbolic link to the directory /w.
FixedEntries == { << <<>>, Dir >>,
                  << <<"passwd">>, File("SECRET") >>,
                  << <<"public">>, Dir >>,
                  << <<"public", "b">>, File("B") >>,
                  << <<"w">>, Dir >>,
                  << <<"w", "public">>, Dir >>,
                  << <<"w", "public", "b">>, File("W") >>,
                  << <<"ln">>, Link(<<"w">>) >> }

FixedPaths == { e[1] : e \in FixedEntries }

FixedEntry(p) == (CHOOSE e \in FixedEntries : e[1] = p)[2]

\* The entries another process may change, with what each may be
SlotA == <<"public", "a">>
SlotD == <<"public", "d">>
Slots == {SlotA, SlotD}

SlotEntries(slot) ==
    IF slot = SlotA
    THEN {Absent, File("A"), Link(<<"passwd">>), Link(<<"public", "b">>)}
    ELSE {Absent, Dir, Link(<<>>)}

Filesystems == { f \in [Slots -> UNION { SlotEntries(s) : s \in Slots }] :
                   \A s \in Slots : f[s] \in SlotEntries(s) }

\* os.lstat(p) for a path p whose directory is already resolved
Lstat(f, p) == IF p \in FixedPaths THEN FixedEntry(p)
               ELSE IF p \in Slots THEN f[p]
               ELSE Absent

\* dropping the "" and "." components, as pathlib does when it parses
RECURSIVE Parts(_)
Parts(segs) == IF segs = <<>> THEN <<>>
               ELSE IF Head(segs) \in {"", "."} THEN Parts(Tail(segs))
               ELSE <<Head(segs)>> \o Parts(Tail(segs))

\* the request's path starts with "/"
IsAbsolute(segs) == Len(segs) >= 2 /\ segs[1] = ""

\* public_dir / filepath: an absolute right operand replaces the left one
Join(base, segs) == IF IsAbsolute(segs) THEN Parts(segs) ELSE base \o Parts(segs)

\* os.path.realpath (non-strict): component by component from the resolved
\* path cur; ".." is the parent of the resolved path, a symbolic link is
\* replaced by its (absolute) target, a missing component is kept
RECURSIVE Realpath(_, _, _)
Realpath(f, cur, rest) ==
    IF rest = <<>> THEN cur
    ELSE LET name == Head(rest)
         IN IF name = ".."
            THEN Realpath(f, IF cur = <<>> THEN <<>> ELSE Front(cur), Tail(rest))
            ELSE IF Lstat(f, cur \o <<name>>).kind = "link"
            THEN Realpath(f, <<>>, Lstat(f, cur \o <<name>>).target \o Tail(rest))
            ELSE Realpath(f, cur \o <<name>>, Tail(rest))

\* os.path.normpath: ".." removed textually, no link followed
RECURSIVE Normpath(_, _)
Normpath(cur, rest) ==
    IF rest = <<>> THEN cur
    ELSE IF Head(rest) = ".."
    THEN Normpath(IF cur = <<>> THEN <<>> ELSE Front(cur), Tail(rest))
    ELSE Normpath(cur \o <<Head(rest)>>, Tail(rest))

\* what the kernel finds at p: the links of p's directories followed, the
\* last component not
LstatPath(f, p) == IF p = <<>> THEN Dir
                   ELSE Lstat(f, Realpath(f, <<>>, Front(p)) \o <<Last(p)>>)

\* what the kernel finds at p, every link followed
StatPath(f, p) == Lstat(f, Realpath(f, <<>>, p))

(***************************************************************************)
(* GET /public/{filepath}                                                  *)
(***************************************************************************)
\* the session registry: app_manager(notebook_id).filename
SessionIds == {"nb1", "nb2", "nb3"}

AppFilename(id) == CASE id = "nb1" -> <<"nb.py">>
                     [] id = "nb3" -> <<"ln", "nb.py">>
                     [] OTHER -> None

NotebookIds == {None, ""} \cup SessionIds

\* Path.cwd()
Cwd == <<"w">>

Segments == {"", "..", "a", "b", "d", "passwd", "public"}

Filepaths == SeqsUpTo(Segments, MaxSegs) \ { <<>> }

\* a variant: if notebook_id is not None
HeaderNotNoneMut(id) == id # None
\* if notebook_id:
Truthy(id) == id # None /\ id # ""

\* lines 222-227: public_dir
PublicDir(id) ==
    (IF AppFilename(id) # None THEN Front(AppFilename(id)) ELSE Cwd) \o <<"public">>

\* a variant that normalises the text: os.path.normpath(public_dir / filepath)
ResolveLexicalMut(f, dir, segs) == Normpath(<<>>, Join(dir, segs))
\* line 228: (public_dir / filepath).resolve()
ResolvedFilePath(f, dir, segs) == Realpath(f, <<>>, Join(dir, segs))

\* a variant that tests against the notebook directory:
\* file_path.relative_to(notebook_dir.resolve())
InsideNotebookDirMut(f, path, dir) == IsPrefix(Realpath(f, <<>>, Front(dir)), path)
\* line 232: file_path.relative_to(public_dir.resolve()) raises no ValueError
InsidePublicDir(f, path, dir) == IsPrefix(Realpath(f, <<>>, dir), path)

\* file_path.is_file(): follows links
is_file(f, p) == StatPath(f, p).kind = "file"

\* os.path.islink(str(file_path))
islink(f, p) == LstatPath(f, p).kind = "link"

\* FileResponse(file_path): opens the path, following links, and streams it
FileResponse(f, p) ==
    IF StatPath(f, p).kind = "file"
    THEN Response(200, <<StatPath(f, p).data>>, "text/plain", None)
    ELSE Unhandled("RuntimeError")

\* serve_public_file, as a function of the request and the filesystem
ServePublicFile(id, segs, f) ==
    IF ~Truthy(id)
    THEN [response |-> HTTPException(404, "File not found"), calls |-> <<>>,
          public_dir |-> <<>>, file_path |-> <<>>]
    ELSE LET dir == PublicDir(id)
             path == ResolvedFilePath(f, dir, segs)
             c1 == << Call("app_manager", <<id>>, 0), Call("resolve", Join(dir, segs), 0),
                      Call("resolve", dir, 0) >>
             c2 == c1 \o << Call("is_file", path, 0) >>
             c3 == c2 \o << Call("islink", path, 0) >>
             c4 == c3 \o << Call("open", Realpath(f, <<>>, path), 0) >>
         IN [response |->
                IF ~InsidePublicDir(f, path, dir)
                THEN Response(403, <<"Access denied">>, None, None)
                ELSE IF is_file(f, path) /\ ~islink(f, path)
                THEN FileResponse(f, path)
                ELSE HTTPException(404, "File not found"),
             calls |->
                IF ~InsidePublicDir(f, path, dir) THEN c1
                ELSE IF ~is_file(f, path) THEN c2
                ELSE IF islink(f, path) THEN c3
                ELSE c4,
             public_dir |-> dir,
             file_path |-> path]

(***************************************************************************)
(* The server: a request arrives, its handler answers it                   *)
(***************************************************************************)
InitVirtual ==
    /\ route = "file"
    /\ token \in Tokens
    /\ store \in Stores
    /\ notebook_id = None
    /\ filepath = <<"">>
    /\ fs = [s \in Slots |-> Absent]
    /\ pc = "start"
    /\ public_dir = <<>>
    /\ file_path = <<>>
    /\ response = NoResponse
    /\ calls = <<>>

InitPublic ==
    /\ route = "public"
    /\ token = <<>>
    /\ store = <<>>
    /\ notebook_id \in NotebookIds
    /\ filepath \in Filepaths
    /\ fs \in Filesystems
    /\ pc = "start"
    /\ public_dir = <<>>
    /\ file_path = <<>>
    /\ response = NoResponse
    /\ calls = <<>>

Init == InitVirtual \/ InitPublic

virtual_file ==
    /\ route = "file"
    /\ pc = "start"
    /\ response' = VirtualFile(token, store).response
    /\ calls' = VirtualFile(token, store).calls
    /\ pc' = "done"
    /\ UNCHANGED << route, token, store, notebook_id, filepath, fs, public_dir, file_path >>

serve_public_file ==
    /\ route = "public"
    /\ pc = "start"
    /\ response' = ServePublicFile(notebook_id, filepath, fs).response
    /\ calls' = ServePublicFile(notebook_id, filepath, fs).calls
    /\ public_dir' = ServePublicFile(notebook_id, filepath, fs).public_dir
    /\ file_path' = ServePublicFile(notebook_id, filepath, fs).file_path
    /\ pc' = "done"
    /\ UNCHANGED << route, token, store, notebook_id, filepath, fs >>

Next == virtual_file \/ serve_public_file

Spec == Init /\ [][Next]_vars

(***************************************************************************)
(* serve_public_file step by step, while another process changes the       *)
(* filesystem                                                              *)
(***************************************************************************)
Answer(r) == response' = r /\ pc' = "done"

\* lines 217-227
BeginRequest ==
    /\ route = "public" /\ pc = "start"
    /\ IF Truthy(notebook_id)
       THEN /\ public_dir' = PublicDir(notebook_id)
            /\ calls' = Append(calls, Call("app_manager", <<notebook_id>>, 0))
            /\ pc' = "resolve"
            /\ UNCHANGED response
       ELSE /\ Answer(HTTPException(404, "File not found"))
            /\ UNCHANGED << public_dir, calls >>
    /\ UNCHANGED << route, token, store, notebook_id, filepath, fs, file_path >>

\* line 228
ResolveFilePath ==
    /\ pc = "resolve"
    /\ file_path' = ResolvedFilePath(fs, public_dir, filepath)
    /\ calls' = Append(calls, Call("resolve", Join(public_dir, filepath), 0))
    /\ pc' = "check"
    /\ UNCHANGED << route, token, store, notebook_id, filepath, fs, public_dir, response >>

\* lines 231-234
SecurityCheck ==
    /\ pc = "check"
    /\ calls' = Append(calls, Call("resolve", public_dir, 0))
    /\ IF InsidePublicDir(fs, file_path, public_dir)
       THEN pc' = "is_file" /\ UNCHANGED response
       ELSE Answer(Response(403, <<"Access denied">>, None, None))
    /\ UNCHANGED << route, token, store, notebook_id, filepath, fs, public_dir, file_path >>

\* line 236, left operand
CheckIsFile ==
    /\ pc = "is_file"
    /\ calls' = Append(calls, Call("is_file", file_path, 0))
    /\ IF is_file(fs, file_path)
       THEN pc' = "islink" /\ UNCHANGED response
       ELSE Answer(HTTPException(404, "File not found"))
    /\ UNCHANGED << route, token, store, notebook_id, filepath, fs, public_dir, file_path >>

\* line 236, right operand
CheckIsLink ==
    /\ pc = "islink"
    /\ calls' = Append(calls, Call("islink", file_path, 0))
    /\ IF islink(fs, file_path)
       THEN Answer(HTTPException(404, "File not found"))
       ELSE pc' = "open" /\ UNCHANGED response
    /\ UNCHANGED << route, token, store, notebook_id, filepath, fs, public_dir, file_path >>

\* line 237: the file is opened and streamed when the response is sent
SendFile ==
    /\ pc = "open"
    /\ calls' = Append(calls, Call("open", Realpath(fs, <<>>, file_path), 0))
    /\ Answer(FileResponse(fs, file_path))
    /\ UNCHANGED << route, token, store, notebook_id, filepath, fs, public_dir, file_path >>

\* another process replaces one entry while the request is being served
FsMutate ==
    /\ pc \notin {"start", "done"}
    /\ \E slot \in Slots : \E e \in SlotEntries(slot) \ {fs[slot]} :
          fs' = [fs EXCEPT ![slot] = e]
    /\ UNCHANGED << route, token, store, notebook_id, filepath, pc, public_dir,
                    file_path, response, calls >>

NextRace == \/ BeginRequest
            \/ ResolveFilePath
            \/ SecurityCheck
            \/ CheckIsFile
            \/ CheckIsLink
            \/ SendFile
            \/ FsMutate

SpecRace == InitPublic /\ [][NextRace]_vars

(***************************************************************************)
(* Properties                                                              *)
(***************************************************************************)
FileDone == pc = "done" /\ route = "file"
PublicDone == pc = "done" /\ route = "public"

\* the data of the files of the filesystem
FileData == {"SECRET", "A", "B", "W"}

NoFileContents == /\ \A i \in 1..Len(response.content) : response.content[i] \notin FileData
                  /\ \A i \in 1..Len(calls) : calls[i].op # "open"

\* the canonical join of session id's PublicDirectory with segs lies outside
\* the canonical PublicDirectory
EscapesSandbox(id, segs, f) ==
    LET D == (IF AppFilename(id) # None THEN Front(AppFilename(id)) ELSE Cwd) \o <<"public">>
    IN ~IsPrefix(Realpath(f, <<>>, D), Realpath(f, <<>>, Join(D, segs)))

HasSession == notebook_id \in SessionIds

\* C1: a path whose canonical join with the public directory lies outside
\* the canonical public directory is never answered with file contents:
\* the answer is 403 or 404, whatever the session header.
C1_SandboxContainment ==
    (PublicDone /\ \E id \in SessionIds :
                      (HasSession => id = notebook_id) /\ EscapesSandbox(id, filepath, fs))
    => response.status \in {403, 404} /\ NoFileContents

C1_Witness ==
    /\ PublicDone /\ notebook_id = "nb1"
    /\ filepath = <<"..", "passwd">>
    /\ EscapesSandbox(notebook_id, filepath, fs)
    /\ response.status = 403

C1_WitnessAbsolute ==
    /\ PublicDone /\ notebook_id = "nb2"
    /\ filepath = <<"", "passwd">>
    /\ EscapesSandbox(notebook_id, filepath, fs)
    /\ response.status = 403

\* C2: a request, with a session, for a name that is a symbolic link in the
\* public directory to a regular file inside the public directory is
\* answered 404, never with the target's contents.
C2_SymlinkRefused ==
    (/\ PublicDone /\ HasSession
     /\ Len(filepath) = 1 /\ Len(Parts(filepath)) = 1
     /\ LET leaf == PublicDir(notebook_id) \o Parts(filepath)
        IN /\ Lstat(fs, leaf).kind = "link"
           /\ Lstat(fs, Lstat(fs, leaf).target).kind = "file"
           /\ IsPrefix(PublicDir(notebook_id), Lstat(fs, leaf).target))
    => response.status = 404 /\ NoFileContents

\* C3: without a session header, or with an empty one, every path is
\* answered 404 and neither the registry nor the filesystem is consulted.
C3_AbsentSession ==
    (PublicDone /\ notebook_id \in {None, ""})
    => response = HTTPException(404, "File not found") /\ calls = <<>>

C3_Witness ==
    /\ PublicDone /\ notebook_id = ""
    /\ EscapesSandbox("nb1", filepath, fs)
    /\ response.status = 404 /\ calls = <<>>

\* C4: with a session, a path whose canonical join lies outside the
\* canonical public directory is answered 403, before any existence,
\* file-type or link test and before any read.
C4_DeniedOnEscape ==
    (PublicDone /\ HasSession /\ EscapesSandbox(notebook_id, filepath, fs))
    => /\ response.status = 403
       /\ \A i \in 1..Len(calls) : calls[i].op \notin {"is_file", "islink", "open"}

\* a symbolic-link directory inside the public directory that leads outside
C4_Witness ==
    /\ PublicDone /\ notebook_id = "nb1"
    /\ fs[SlotD] = Link(<<>>) /\ filepath = <<"d", "passwd">>
    /\ EscapesSandbox(notebook_id, filepath, fs)
    /\ response.status = 403

\* ASCII decimal digits only
AsciiNumeric(s) == Len(s) > 0 /\ \A i \in 1..Len(s) : s[i] \in AsciiDigits

\* C5: a token, not the sentinel, whose segment before the first "-" is not
\* made of decimal digits only is answered 404 and the store is not queried.
C5_NonNumericLength ==
    (/\ FileDone /\ token # EMPTY_VIRTUAL_FILE_filename
     /\ Contains(token, "-")
     /\ ~AsciiNumeric(SubSeq(token, 1, FirstIndex(token, "-") - 1)))
    => response.status = 404 /\ calls = <<>>

\* str(n): n in ASCII decimal digits
DigitChars == <<"0", "1", "2", "3", "4", "5", "6", "7", "8", "9">>

RECURSIVE Decimal(_)
Decimal(n) == IF n < 10 THEN <<DigitChars[n + 1]>>
              ELSE Decimal(n \div 10) \o <<DigitChars[(n % 10) + 1]>>

TokenFor(name, buf) == Decimal(Len(buf)) \o <<"-">> \o name

\* C6: when the store holds n bytes under name, the token "{n}-{name}" is
\* answered with exactly those bytes, the store having been asked for
\* (name, n); also for a name that holds a "-".
C6_RoundTrip ==
    FileDone =>
        \A name \in DOMAIN store :
            token = TokenFor(name, store[name])
            => /\ response.status = 200
               /\ response.content = store[name]
               /\ calls = << Call("read_virtual_file", name, Len(store[name])) >>

C6_Witness ==
    /\ FileDone
    /\ \E name \in DOMAIN store :
          /\ Contains(name, "-")
          /\ token = TokenFor(name, store[name])
          /\ response.status = 200
          /\ response.content = store[name]
          /\ response.content # <<>>

\* C7: the sentinel token is answered 200 with no bytes and the content
\* type application/octet-stream, whatever the store holds, and the store
\* is not queried.
C7_EmptySentinel ==
    (FileDone /\ token = EMPTY_VIRTUAL_FILE_filename)
    => /\ response.status = 200
       /\ response.content = <<>>
       /\ response.media_type = "application/octet-stream"
       /\ calls = <<>>

C7_Witness ==
    /\ FileDone /\ token = EMPTY_VIRTUAL_FILE_filename
    /\ store # <<>>
    /\ response.status = 200 /\ response.content = <<>>

\* C8 as stated: every 200 of the route carries Cache-Control:
\* max-age=86400, and no 404 carries bytes.
C8_EverySuccessCached ==
    FileDone => /\ response.status = 200 => response.cache_control = "max-age=86400"
                /\ response.status = 404 => response.content = <<>>

\* C8 as amended: every 200 for a token other than the sentinel carries
\* Cache-Control: max-age=86400, the sentinel's 200 carries no Cache-Control,
\* and no 404 carries bytes.
C8_SuccessCachedExceptSentinel ==
    FileDone =>
        /\ (response.status = 200 /\ token # EMPTY_VIRTUAL_FILE_filename)
              => response.cache_control = "max-age=86400"
        /\ (response.status = 200 /\ token = EMPTY_VIRTUAL_FILE_filename)
              => response.cache_control = None
        /\ response.status = 404 => response.content = <<>>

C8_Witness ==
    /\ FileDone /\ token # EMPTY_VIRTUAL_FILE_filename
    /\ response.status = 200 /\ response.content # <<>>
    /\ response.cache_control = "max-age=86400"

\* the three failures of the route: no separator; a length that is not
\* numeric; a well-formed token the store has no matching buffer for
FailingToken ==
    /\ token # EMPTY_VIRTUAL_FILE_filename
    /\ \/ ~Contains(token, "-")
       \/ ~AsciiNumeric(SplitOnce(token)[1])
       \/ ~read_virtual_file(store, SplitOnce(token)[2], IntValue(SplitOnce(token)[1])).ok

\* C9: the three failures are answered alike: the response is the one a
\* token without separator gets.
C9_FailuresAlike ==
    (FileDone /\ FailingToken) => response = VirtualFile(<<"t">>, store).response

\* C10: whatever another process does to the filesystem during the
\* request, a file that is streamed lies, when it is opened, inside the
\* canonical public directory.
C10_ContainedAtRead ==
    (PublicDone /\ response.status = 200)
    => IsPrefix(Realpath(fs, <<>>, public_dir), Realpath(fs, <<>>, file_path))

=============================================================================
